---- MODULE Spec2Model ----
(***************************************************************************)
(* Model of the trajectory-dump parsers of the repository:                 *)
(*   read_dump_voro    (scripts/convert_to_trajectory.py)                  *)
(*   read_lammps_dump  (scripts/analyze_dislocations.py)                   *)
(* A dump file is a sequence of lines, a line the sequence of its          *)
(* whitespace-separated tokens.  One action models one iteration of the    *)
(* parser's "for line in f" loop, every next(f) it performs included.      *)
(***************************************************************************)
EXTENDS Integers, Sequences, FiniteSets, TLC

VARIABLES prog, file, voro, lmp, conv, ana, ext, split

vars == <<prog, file, voro, lmp, conv, ana, ext, split>>

(***************************************************************************)
(* Tokens.  A token is an integer literal ("12"), a float literal          *)
(* ("1.5") or any other word.  Numeric values are counted in tenths, so    *)
(* the float literal 1.5 has v = 15 and the integer literal 12 has         *)
(* v = 120; d is the number of digits written after the decimal point.     *)
(* A word carries its text w as the sequence of its characters, so that    *)
(* the character tests of the code (str.startswith, "in", re.match) are    *)
(* tests on characters here too.  The tokens of a line are separated by    *)
(* single blanks.                                                          *)
(***************************************************************************)
\* The characters of the words the inputs are written with.
Spell(s) ==
    CASE s = "ITEM:" -> <<"I", "T", "E", "M", ":">>
      [] s = "ITEM:X" -> <<"I", "T", "E", "M", ":", "X">>
      [] s = "xITEM:" -> <<"x", "I", "T", "E", "M", ":">>
      [] s = "TIMESTEP" -> <<"T", "I", "M", "E", "S", "T", "E", "P">>
      [] s = "TIMESTEPS" -> <<"T", "I", "M", "E", "S", "T", "E", "P", "S">>
      [] s = "NUMBER" -> <<"N", "U", "M", "B", "E", "R">>
      [] s = "OF" -> <<"O", "F">>
      [] s = "ATOMS" -> <<"A", "T", "O", "M", "S">>
      [] s = "ATOMSX" -> <<"A", "T", "O", "M", "S", "X">>
      [] s = "BOX" -> <<"B", "O", "X">>
      [] s = "BOUNDS" -> <<"B", "O", "U", "N", "D", "S">>
      [] s = "pp" -> <<"p", "p">>
      [] s = "id" -> <<"i", "d">>
      [] s = "type" -> <<"t", "y", "p", "e">>
      [] s = "x" -> <<"x">>
      [] s = "y" -> <<"y">>
      [] s = "z" -> <<"z">>
      [] s = "vx" -> <<"v", "x">>
      [] s = "vy" -> <<"v", "y">>
      [] s = "vz" -> <<"v", "z">>
      [] s = "fx" -> <<"f", "x">>
      [] s = "fy" -> <<"f", "y">>
      [] s = "c_csp" -> <<"c", "_", "c", "s", "p">>
      [] s = "a" -> <<"a">>
      [] s = "q" -> <<"q">>
      [] s = "Step" -> <<"S", "t", "e", "p">>
      [] s = "Steps" -> <<"S", "t", "e", "p", "s">>
      [] s = "Stepsize" -> <<"S", "t", "e", "p", "s", "i", "z", "e">>
      [] s = "StepPzz" -> <<"S", "t", "e", "p", "P", "z", "z">>
      [] s = "Step:" -> <<"S", "t", "e", "p", ":">>
      [] s = "Pxx" -> <<"P", "x", "x">>
      [] s = "Pyy" -> <<"P", "y", "y">>
      [] s = "Pzz" -> <<"P", "z", "z">>
      [] s = "Lx" -> <<"L", "x">>
      [] s = "Ly" -> <<"L", "y">>
      [] s = "Lz" -> <<"L", "z">>
      [] s = "Temp" -> <<"T", "e", "m", "p">>
      [] s = "Loop" -> <<"L", "o", "o", "p">>
      [] s = "time" -> <<"t", "i", "m", "e">>
      [] s = "of" -> <<"o", "f">>
      [] s = "on" -> <<"o", "n">>
      [] s = "procs" -> <<"p", "r", "o", "c", "s">>

IntTok(n) == [k |-> "int", v |-> 10 * n, d |-> 0, w |-> <<>>]

FloatTok(t) == [k |-> "float", v |-> t, d |-> 1, w |-> <<>>]

Word(s) == [k |-> "word", v |-> 0, d |-> 0, w |-> Spell(s)]

None == <<>>

Some(x) == <<x>>

\* float(token): defined for integer and float literals.
IsFloat(tok) == tok.k \in {"int", "float"}

\* int(token) on a string: defined for integer literals only.
IsIntLiteral(tok) == tok.k = "int"

\* int(x) on a float value: truncation toward zero.
IntOfFloat(v) == IF v >= 0 THEN v \div 10 ELSE -((-v) \div 10)

\* list(map(float, line.split())) succeeds iff every token is numeric.
AllFloat(line) == \A i \in 1..Len(line) : IsFloat(line[i])

FloatsOf(line) == [i \in 1..Len(line) |-> line[i].v]

\* t.startswith(p) on the characters of one word.
HasPrefix(t, p) == Len(t) >= Len(p) /\ SubSeq(t, 1, Len(p)) = p

\* t.endswith(p) on the characters of one word.
HasSuffix(t, p) ==
    Len(t) >= Len(p) /\ SubSeq(t, Len(t) - Len(p) + 1, Len(t)) = p

\* p in t on the characters of one word.
HasInfix(t, p) ==
    \E o \in 0..(Len(t) - Len(p)) : SubSeq(t, o + 1, o + Len(p)) = p

\* A numeral holds digits, a sign and a point only: in the character tests
\* below it never matches a letter or a colon.
IsWord(tok) == tok.k = "word"

\* line.startswith(' '.join(words)): the line begins with the characters of
\* the pattern, so all words of the pattern but the last are whole tokens
\* and the last one begins a token.
StartsWith(line, words) ==
    LET n == Len(words)
    IN  /\ Len(line) >= n
        /\ \A i \in 1..(n - 1) :
              IsWord(line[i]) /\ line[i].w = Spell(words[i])
        /\ IsWord(line[n]) /\ HasPrefix(line[n].w, Spell(words[n]))

\* ' '.join(words) in line: the characters of the pattern occur somewhere
\* in the line, so its first word ends a token, its last word begins a
\* token and the words between are whole tokens.
Contains(line, words) ==
    LET n == Len(words)
    IN  IF n = 1
        THEN \E i \in 1..Len(line) :
                IsWord(line[i]) /\ HasInfix(line[i].w, Spell(words[1]))
        ELSE \E o \in 0..(Len(line) - n) :
                /\ IsWord(line[o + 1])
                /\ HasSuffix(line[o + 1].w, Spell(words[1]))
                /\ \A i \in 2..(n - 1) :
                      IsWord(line[o + i]) /\ line[o + i].w = Spell(words[i])
                /\ IsWord(line[o + n])
                /\ HasPrefix(line[o + n].w, Spell(words[n]))

(***************************************************************************)
(* The dump grammar: marker lines and the sections of a snapshot.          *)
(***************************************************************************)
Words(ws) == [i \in 1..Len(ws) |-> Word(ws[i])]

TimestepMarker == Words(<<"ITEM:", "TIMESTEP">>)

NumberOfAtomsMarker == Words(<<"ITEM:", "NUMBER", "OF", "ATOMS">>)

BoxBoundsMarker == Words(<<"ITEM:", "BOX", "BOUNDS", "pp", "pp", "pp">>)

NarrowCols == <<"id", "type", "x", "y", "z">>

WideCols == <<"id", "type", "x", "y", "z", "vx", "vy", "vz", "fx", "fy", "c_csp">>

Cols(wide) == IF wide THEN WideCols ELSE NarrowCols

AtomsMarker(wide) == Words(<<"ITEM:", "ATOMS">> \o Cols(wide))

BoundLine(hi) == <<FloatTok(0), FloatTok(hi)>>

\* The data line of atom i in the k-th snapshot section of a file: the
\* coordinates differ per column, per atom and per section.
AtomLine(k, i, wide) ==
    <<IntTok(i), IntTok(k),
      FloatTok(100 * k + 10 * i + 1),
      FloatTok(100 * k + 10 * i + 2),
      FloatTok(100 * k + 10 * i + 3)>>
    \o (IF wide
        THEN <<FloatTok(0), FloatTok(0), FloatTok(0), FloatTok(0), FloatTok(0),
               FloatTok(10 * k + i)>>
        ELSE <<>>)

\* One well-formed snapshot section: timestep t, n declared atoms and n
\* atom lines, with or without a BOX BOUNDS block.
Section(k, t, n, box, wide) ==
    <<TimestepMarker, <<IntTok(t)>>, NumberOfAtomsMarker, <<IntTok(n)>>>>
    \o (IF box
        THEN <<BoxBoundsMarker, BoundLine(100 + k), BoundLine(100 + k),
               BoundLine(100 + k)>>
        ELSE <<>>)
    \o <<AtomsMarker(wide)>>
    \o [i \in 1..n |-> AtomLine(k, i, wide)]

(***************************************************************************)
(* Bounds of the inputs.                                                   *)
(***************************************************************************)
MaxSections == 2

MaxAtoms == 3

Timesteps == {0, 100}

RECURSIVE Concat(_)
Concat(ss) == IF ss = <<>> THEN <<>> ELSE Head(ss) \o Concat(Tail(ss))

\* A well-formed file: sections with timesteps tss, each declaring and
\* holding n atoms.
WellFormed(tss, n, box, wide) ==
    Concat([k \in 1..Len(tss) |-> Section(k, tss[k], n, box, wide)])

TimestepSeqs == UNION {[1..k -> Timesteps] : k \in 1..MaxSections}

Bases(wide) ==
    {WellFormed(tss, n, box, wide) :
        tss \in TimestepSeqs, n \in 1..MaxAtoms, box \in BOOLEAN}

\* Lines that are not part of a well-formed file.
ShortLine == <<IntTok(7), IntTok(7)>>

NonNumericLine == <<IntTok(8), IntTok(1), Word("a"), FloatTok(82), FloatTok(83)>>

BlankLine == <<>>

NamesLine == Words(<<"z", "y", "x", "q", "q", "id">>)

ExtraAtomLine(wide) == AtomLine(9, 9, wide)

InvalidLines == {ShortLine, NonNumericLine, BlankLine, NamesLine}

ExtraLines(wide) == InvalidLines \cup {ExtraAtomLine(wide)}

InsertAt(f, i, l) == SubSeq(f, 1, i) \o <<l>> \o SubSeq(f, i + 1, Len(f))

DeleteAt(f, i) == SubSeq(f, 1, i - 1) \o SubSeq(f, i + 1, Len(f))

ReplaceAt(f, i, l) == [f EXCEPT ![i] = l]

\* An ATOMS marker whose column list lacks the required name z.
PartialAtomsMarker == Words(<<"ITEM:", "ATOMS", "id", "type", "x", "y">>)

\* The marker line l with one word lengthened by a character, or followed
\* on its line by a second marker.
Lengthened(l, wide) ==
    IF l = TimestepMarker
    THEN {Words(<<"ITEM:", "TIMESTEPS">>), Words(<<"xITEM:", "TIMESTEP">>)}
    ELSE IF l = NumberOfAtomsMarker
    THEN {Words(<<"ITEM:X", "NUMBER", "OF", "ATOMS">>),
          Words(<<"ITEM:", "NUMBER", "OF", "ATOMSX">>),
          NumberOfAtomsMarker \o TimestepMarker}
    ELSE IF l = AtomsMarker(wide)
    THEN {Words(<<"ITEM:", "ATOMSX">> \o Cols(wide))}
    ELSE {}

\* A well-formed file, or one with one line inserted, one line removed, cut
\* short (a truncated stream), with one ATOMS marker lacking a column, or
\* with one marker line lengthened.
Variants(b, wide) ==
    {b}
    \cup {InsertAt(b, i, l) : i \in 0..Len(b), l \in ExtraLines(wide)}
    \cup {DeleteAt(b, i) : i \in 1..Len(b)}
    \cup {SubSeq(b, 1, i) : i \in 0..(Len(b) - 1)}
    \cup {ReplaceAt(b, i, PartialAtomsMarker) :
            i \in {j \in 1..Len(b) : b[j] = AtomsMarker(wide)}}
    \cup UNION {{ReplaceAt(b, i, l) : l \in Lengthened(b[i], wide)} :
                  i \in 1..Len(b)}

\* A file whose first section declares d atoms and holds m atom lines, with
\* the ATOMS marker repeated before the last atom line when rep, and
\* followed by a well-formed one-atom section when more.
MismatchFile(d, m, rep, more, wide) ==
    <<TimestepMarker, <<IntTok(0)>>, NumberOfAtomsMarker, <<IntTok(d)>>,
      BoxBoundsMarker, BoundLine(101), BoundLine(101), BoundLine(101),
      AtomsMarker(wide)>>
    \o [i \in 1..(m - 1) |-> AtomLine(1, i, wide)]
    \o (IF rep THEN <<AtomsMarker(wide)>> ELSE <<>>)
    \o (IF m >= 1 THEN <<AtomLine(1, m, wide)>> ELSE <<>>)
    \o (IF more THEN Section(2, 100, 1, TRUE, wide) ELSE <<>>)

MismatchFiles(wide) ==
    {MismatchFile(d, m, rep, more, wide) :
        d \in 0..MaxAtoms, m \in 0..MaxAtoms, rep \in BOOLEAN,
        more \in BOOLEAN}

\* The two-snapshot scenario input.
Scenario ==
    <<TimestepMarker, <<IntTok(0)>>, NumberOfAtomsMarker, <<IntTok(2)>>,
      BoxBoundsMarker, BoundLine(100), BoundLine(100), BoundLine(100),
      AtomsMarker(FALSE),
      <<IntTok(1), IntTok(1), FloatTok(10), FloatTok(10), FloatTok(10)>>,
      <<IntTok(2), IntTok(1), FloatTok(20), FloatTok(20), FloatTok(20)>>,
      TimestepMarker, <<IntTok(100)>>, NumberOfAtomsMarker, <<IntTok(2)>>,
      BoxBoundsMarker, BoundLine(105), BoundLine(105), BoundLine(105),
      AtomsMarker(FALSE),
      <<IntTok(1), IntTok(1), FloatTok(11), FloatTok(10), FloatTok(10)>>,
      <<IntTok(2), IntTok(1), FloatTok(23), FloatTok(20), FloatTok(20)>>>>

VoroFiles ==
    {Scenario} \cup MismatchFiles(FALSE)
    \cup UNION {Variants(b, FALSE) : b \in Bases(FALSE)}

LammpsFiles ==
    MismatchFiles(TRUE) \cup UNION {Variants(b, TRUE) : b \in Bases(TRUE)}

(***************************************************************************)
(* read_dump_voro                                                          *)
(***************************************************************************)
VoroInit ==
    [pc |-> "loop", exc |-> "", pos |-> 0, data |-> <<>>,
     current_timestep |-> None, current_data |-> <<>>, box_bounds |-> None,
     atom_ids |-> <<>>, id_idx |-> None, x_idx |-> None, y_idx |-> None,
     z_idx |-> None]

Raise(s, e) == [s EXCEPT !.pc = "raised", !.exc = e]

\* The tuple (current_timestep, current_data, box_bounds, atom_ids).
VoroTuple(s) ==
    [timestep |-> s.current_timestep[1], positions |-> s.current_data,
     box_bounds |-> s.box_bounds, atom_ids |-> s.atom_ids]

\* Mutant: the result is keyed by timestep, a repeated timestep replaces
\* the earlier snapshot.
VoroFinalizeKeyed(s) ==
    IF s.current_timestep # None /\ s.current_data # <<>>
    THEN IF \E i \in 1..Len(s.data) : s.data[i].timestep = s.current_timestep[1]
         THEN [i \in 1..Len(s.data) |->
                 IF s.data[i].timestep = s.current_timestep[1]
                 THEN VoroTuple(s) ELSE s.data[i]]
         ELSE Append(s.data, VoroTuple(s))
    ELSE s.data

\* Mutant: the snapshot is added whether or not it holds particles.
VoroFinalizeAlways(s) ==
    IF s.current_timestep # None
    THEN Append(s.data, VoroTuple(s))
    ELSE s.data

\* "if current_timestep is not None and current_data: data.append(...)"
VoroFinalize(s) ==
    IF s.current_timestep # None /\ s.current_data # <<>>
    THEN Append(s.data, VoroTuple(s))
    ELSE s.data

\* The ITEM: TIMESTEP branch; s.pos is already past the marker line.
VoroTimestep(s, f) ==
    LET s1 == [s EXCEPT !.data = VoroFinalize(s), !.current_data = <<>>,
                        !.atom_ids = <<>>]
    IN  IF s1.pos >= Len(f) THEN Raise(s1, "StopIteration")
        ELSE LET l == f[s1.pos + 1]
                 s2 == [s1 EXCEPT !.pos = @ + 1]
             IN  IF Len(l) = 1 /\ IsIntLiteral(l[1])
                 THEN [s2 EXCEPT !.current_timestep = Some(IntOfFloat(l[1].v))]
                 ELSE Raise(s2, "ValueError")

\* "for _ in range(3): bounds = list(map(float, next(f).split()))"
RECURSIVE VoroBoundsLoop(_, _, _)
VoroBoundsLoop(s, f, n) ==
    IF n = 0 THEN s
    ELSE IF s.pos >= Len(f) THEN Raise(s, "StopIteration")
    ELSE LET l == f[s.pos + 1]
             s1 == [s EXCEPT !.pos = @ + 1]
         IN  IF ~AllFloat(l) THEN Raise(s1, "ValueError")
             ELSE VoroBoundsLoop(
                    [s1 EXCEPT !.box_bounds = Some(Append(@[1], FloatsOf(l)))],
                    f, n - 1)

\* The ITEM: BOX BOUNDS branch.
VoroBoxBounds(s, f) == VoroBoundsLoop([s EXCEPT !.box_bounds = Some(<<>>)], f, 3)

\* "headers.index(name) if name in headers else default" (0-based).
HeaderIndex(headers, name, default) ==
    LET hits == {i \in 1..Len(headers) :
                    headers[i].k = "word" /\ headers[i].w = Spell(name)}
    IN  IF hits = {} THEN default
        ELSE (CHOOSE i \in hits : \A j \in hits : i <= j) - 1

\* The line the column indices are resolved from: "headers = next(f)...".
VoroHeaderLine(s, f) == f[s.pos + 1]

\* The ITEM: ATOMS branch.
VoroAtomsHeader(s, f) ==
    IF s.pos >= Len(f) THEN Raise(s, "StopIteration")
    ELSE LET headers == VoroHeaderLine(s, f)
         IN  [s EXCEPT !.pos = @ + 1,
                       !.id_idx = Some(HeaderIndex(headers, "id", 0)),
                       !.x_idx = Some(HeaderIndex(headers, "x", 1)),
                       !.y_idx = Some(HeaderIndex(headers, "y", 2)),
                       !.z_idx = Some(HeaderIndex(headers, "z", 3))]

\* Mutant: the position of a data line is stored without its id.
VoroDataLineNoId(s, line) ==
    IF ~AllFloat(line) THEN s
    ELSE LET values == FloatsOf(line)
         IN  IF Len(values) < 4 THEN s
             ELSE IF s.id_idx = None THEN Raise(s, "UnboundLocalError")
             ELSE IF s.id_idx[1] >= Len(values) THEN Raise(s, "IndexError")
             ELSE IF \E i \in {s.x_idx[1], s.y_idx[1], s.z_idx[1]} :
                        i >= Len(values)
                  THEN Raise(s, "IndexError")
             ELSE [s EXCEPT
                     !.current_data =
                        Append(@, <<values[s.x_idx[1] + 1],
                                    values[s.y_idx[1] + 1],
                                    values[s.z_idx[1] + 1]>>)]

\* The data-line branch (lines 47-54), for a line met with a timestep set.
\* Line 51 appends the id before line 52 reads the coordinates: an
\* IndexError of line 52 leaves the id appended.
VoroDataLine(s, line) ==
    IF ~AllFloat(line) THEN s
    ELSE LET values == FloatsOf(line)
         IN  IF Len(values) < 4 THEN s
             ELSE IF s.id_idx = None THEN Raise(s, "UnboundLocalError")
             ELSE IF s.id_idx[1] >= Len(values) THEN Raise(s, "IndexError")
             ELSE LET s2 == [s EXCEPT !.atom_ids =
                               Append(@, IntOfFloat(values[s.id_idx[1] + 1]))]
                  IN  IF \E i \in {s.x_idx[1], s.y_idx[1], s.z_idx[1]} :
                            i >= Len(values)
                      THEN Raise(s2, "IndexError")
                      ELSE [s2 EXCEPT
                              !.current_data =
                                 Append(@, <<values[s.x_idx[1] + 1],
                                             values[s.y_idx[1] + 1],
                                             values[s.z_idx[1] + 1]>>)]

\* Mutant: the snapshot under accumulation at end of file is not added.
VoroReturnNoLast(s) == [s EXCEPT !.pc = "returned"]

\* After the loop: "Add the last timestep", "return data".
VoroReturn(s) == [s EXCEPT !.data = VoroFinalize(s), !.pc = "returned"]

IsTimestepLine(line) == StartsWith(line, <<"ITEM:", "TIMESTEP">>)

IsBoxBoundsLine(line) == StartsWith(line, <<"ITEM:", "BOX", "BOUNDS">>)

IsItemLine(line) == StartsWith(line, <<"ITEM:">>)

IsAtomsLine(line) == StartsWith(line, <<"ITEM:", "ATOMS">>)

\* One iteration of "for line in tqdm(f)", or the code after the loop.
VoroStep(s, f) ==
    IF s.pos >= Len(f) THEN VoroReturn(s)
    ELSE LET line == f[s.pos + 1]
             s1 == [s EXCEPT !.pos = @ + 1]
         IN  IF IsTimestepLine(line) THEN VoroTimestep(s1, f)
             ELSE IF IsBoxBoundsLine(line) THEN VoroBoxBounds(s1, f)
             ELSE IF IsItemLine(line)
                  THEN IF ~IsAtomsLine(line) THEN s1 ELSE VoroAtomsHeader(s1, f)
             ELSE IF s.current_timestep # None THEN VoroDataLine(s1, line)
             ELSE s1

\* read_dump_voro(f) run to its end: the final state (returned or raised).
RECURSIVE VoroRun(_, _)
VoroRun(s, f) == IF s.pc # "loop" THEN s ELSE VoroRun(VoroStep(s, f), f)

read_dump_voro(f) == VoroRun(VoroInit, f)

(***************************************************************************)
(* read_lammps_dump                                                        *)
(***************************************************************************)
LmpInit(target) ==
    [pc |-> "loop", exc |-> "", pos |-> 0, data |-> <<>>,
     current_timestep |-> None, positions |-> <<>>, types |-> <<>>,
     csp |-> <<>>, box_bounds |-> None, reading_atoms |-> FALSE,
     atoms_expected |-> None, atoms_read |-> 0, target_timesteps |-> target]

\* data[key] = entry on a dict: an existing key keeps its place and gets
\* the new value, a new key goes to the end.
DictSet(data, key, entry) ==
    IF \E i \in 1..Len(data) : data[i].timestep = key
    THEN [i \in 1..Len(data) |->
            IF data[i].timestep = key THEN entry ELSE data[i]]
    ELSE Append(data, entry)

LmpEntry(s) ==
    [timestep |-> s.current_timestep[1], positions |-> s.positions,
     types |-> s.types, csp |-> s.csp, box_bounds |-> s.box_bounds]

\* Mutant: the snapshot is saved whatever target_timesteps holds.
LmpSaveUnfiltered(s) ==
    IF s.current_timestep # None /\ s.atoms_read > 0
    THEN DictSet(s.data, s.current_timestep[1], LmpEntry(s))
    ELSE s.data

\* "if current_timestep is not None and atoms_read > 0:
\*      if target_timesteps is None or current_timestep in target_timesteps:"
LmpSave(s) ==
    IF /\ s.current_timestep # None
       /\ s.atoms_read > 0
       /\ (s.target_timesteps = None
           \/ s.current_timestep[1] \in s.target_timesteps[1])
    THEN DictSet(s.data, s.current_timestep[1], LmpEntry(s))
    ELSE s.data

\* The 'ITEM: TIMESTEP' branch; s.pos is already past the marker line.
LmpTimestep(s, f) ==
    LET s1 == [s EXCEPT !.data = LmpSave(s)]
    IN  IF s1.pos >= Len(f) THEN Raise(s1, "StopIteration")
        ELSE LET l == f[s1.pos + 1]
                 s2 == [s1 EXCEPT !.pos = @ + 1]
             IN  IF Len(l) = 1 /\ IsIntLiteral(l[1])
                 THEN [s2 EXCEPT !.current_timestep = Some(IntOfFloat(l[1].v)),
                                 !.positions = <<>>, !.types = <<>>,
                                 !.csp = <<>>, !.reading_atoms = FALSE,
                                 !.atoms_expected = None, !.atoms_read = 0]
                 ELSE Raise(s2, "ValueError")

\* The 'ITEM: NUMBER OF ATOMS' branch.
LmpNumberOfAtoms(s, f) ==
    IF s.pos >= Len(f) THEN Raise(s, "StopIteration")
    ELSE LET l == f[s.pos + 1]
             s1 == [s EXCEPT !.pos = @ + 1]
         IN  IF Len(l) = 1 /\ IsIntLiteral(l[1])
             THEN [s1 EXCEPT !.atoms_expected = Some(IntOfFloat(l[1].v))]
             ELSE Raise(s1, "ValueError")

\* Mutant: the bounds loop stops at a line it cannot parse and at end of
\* file, keeping the bounds read so far.
RECURSIVE LmpBoundsLoopLenient(_, _, _)
LmpBoundsLoopLenient(s, f, n) ==
    IF n = 0 \/ s.pos >= Len(f) THEN s
    ELSE LET l == f[s.pos + 1]
         IN  IF Len(l) < 2 \/ ~IsFloat(l[1]) \/ ~IsFloat(l[2]) THEN s
             ELSE LmpBoundsLoopLenient(
                    [s EXCEPT !.pos = @ + 1,
                              !.box_bounds =
                                  Some(Append(@[1], <<l[1].v, l[2].v>>))],
                    f, n - 1)

\* "for _ in range(3): bounds = next(f).split();
\*      box_bounds.append([float(bounds[0]), float(bounds[1])])"
RECURSIVE LmpBoundsLoop(_, _, _)
LmpBoundsLoop(s, f, n) ==
    IF n = 0 THEN s
    ELSE IF s.pos >= Len(f) THEN Raise(s, "StopIteration")
    ELSE LET l == f[s.pos + 1]
             s1 == [s EXCEPT !.pos = @ + 1]
         IN  IF Len(l) < 1 THEN Raise(s1, "IndexError")
             ELSE IF ~IsFloat(l[1]) THEN Raise(s1, "ValueError")
             ELSE IF Len(l) < 2 THEN Raise(s1, "IndexError")
             ELSE IF ~IsFloat(l[2]) THEN Raise(s1, "ValueError")
             ELSE LmpBoundsLoop(
                    [s1 EXCEPT !.box_bounds =
                                  Some(Append(@[1], <<l[1].v, l[2].v>>))],
                    f, n - 1)

\* The 'ITEM: BOX BOUNDS' branch.
LmpBoxBounds(s, f) == LmpBoundsLoop([s EXCEPT !.box_bounds = Some(<<>>)], f, 3)

\* The "elif reading_atoms" branch: a line of at least 11 tokens whose
\* fields parse is stored, any other line is skipped.
LmpDataLine(s, parts) ==
    IF Len(parts) < 11 THEN s
    ELSE IF ~(/\ IsIntLiteral(parts[1]) /\ IsIntLiteral(parts[2])
              /\ IsFloat(parts[3]) /\ IsFloat(parts[4]) /\ IsFloat(parts[5])
              /\ IsFloat(parts[11]))
         THEN s
    ELSE LET n == s.atoms_read + 1
         IN  [s EXCEPT
                !.positions = Append(@, <<parts[3].v, parts[4].v, parts[5].v>>),
                !.types = Append(@, IntOfFloat(parts[2].v)),
                !.csp = Append(@, parts[11].v),
                !.atoms_read = n,
                !.reading_atoms =
                    IF s.atoms_expected # None /\ n >= s.atoms_expected[1]
                    THEN FALSE ELSE @]

\* After the loop: "Save data for the last timestep", "return data".
LmpReturn(s) == [s EXCEPT !.data = LmpSave(s), !.pc = "returned"]

HasTimestep(line) == Contains(line, <<"ITEM:", "TIMESTEP">>)

HasNumberOfAtoms(line) == Contains(line, <<"ITEM:", "NUMBER", "OF", "ATOMS">>)

HasBoxBounds(line) == Contains(line, <<"ITEM:", "BOX", "BOUNDS">>)

HasAtoms(line) == Contains(line, <<"ITEM:", "ATOMS">>)

\* One iteration of "for line in f", or the code after the loop.
LmpStep(s, f) ==
    IF s.pos >= Len(f) THEN LmpReturn(s)
    ELSE LET line == f[s.pos + 1]
             s1 == [s EXCEPT !.pos = @ + 1]
         IN  IF HasTimestep(line) THEN LmpTimestep(s1, f)
             ELSE IF HasNumberOfAtoms(line) THEN LmpNumberOfAtoms(s1, f)
             ELSE IF HasBoxBounds(line) THEN LmpBoxBounds(s1, f)
             ELSE IF HasAtoms(line) THEN [s1 EXCEPT !.reading_atoms = TRUE]
             ELSE IF s.reading_atoms THEN LmpDataLine(s1, line)
             ELSE s1

RECURSIVE LmpRun(_, _)
LmpRun(s, f) == IF s.pc # "loop" THEN s ELSE LmpRun(LmpStep(s, f), f)

read_lammps_dump(f, target) == LmpRun(LmpInit(target), f)

(***************************************************************************)
(* write_trajectory and verify_output (convert_to_trajectory.py)           *)
(***************************************************************************)
\* f"{x:.6f}": the value written with 6 digits after the decimal point.
\* The values of the model have one decimal digit; none is lost.
Fixed6(x) == [k |-> "float", v |-> x, d |-> 6, w |-> <<>>]

\* Mutant: the loop counter of enumerate(..., 1) is written as the id.
WriteAtomLineCounter(i, atom_id, pos) ==
    <<IntTok(i), IntTok(1), Fixed6(pos[1]), Fixed6(pos[2]), Fixed6(pos[3])>>

\* f"{atom_id} 1 {pos[0]:.6f} {pos[1]:.6f} {pos[2]:.6f}\n"
WriteAtomLine(i, atom_id, pos) ==
    <<IntTok(atom_id), IntTok(1), Fixed6(pos[1]), Fixed6(pos[2]),
      Fixed6(pos[3])>>

\* "for i, (atom_id, pos) in enumerate(zip(atom_ids, positions), 1)"
WriteAtoms(atom_ids, positions) ==
    LET n == IF Len(atom_ids) < Len(positions) THEN Len(atom_ids)
             ELSE Len(positions)
    IN  [i \in 1..n |-> WriteAtomLine(i, atom_ids[i], positions[i])]

\* The three lines written for an absent box: "0.0 100.0".
DefaultBoundLine == <<FloatTok(0), FloatTok(1000)>>

\* "for bounds in box_bounds: f.write(f"{bounds[0]:.6f} {bounds[1]:.6f}\n")"
RECURSIVE WriteBounds(_, _)
WriteBounds(w, rows) ==
    IF rows = <<>> THEN w
    ELSE IF Len(Head(rows)) < 2 THEN Raise(w, "IndexError")
    ELSE WriteBounds(
            [w EXCEPT !.out = Append(@, <<Fixed6(Head(rows)[1]),
                                          Fixed6(Head(rows)[2])>>)],
            Tail(rows))

\* Mutant: nothing is written for an absent box.
WriteBoxNoDefault(w, box_bounds) ==
    IF box_bounds # None /\ box_bounds[1] # <<>>
    THEN WriteBounds(w, box_bounds[1])
    ELSE w

\* "if box_bounds: ... else: ..." (None and the empty list are both false).
WriteBox(w, box_bounds) ==
    IF box_bounds # None /\ box_bounds[1] # <<>>
    THEN WriteBounds(w, box_bounds[1])
    ELSE [w EXCEPT !.out = @ \o <<DefaultBoundLine, DefaultBoundLine,
                                   DefaultBoundLine>>]

\* The block written for one tuple of data.
WriteSnapshot(w, t) ==
    LET w1 == [w EXCEPT !.out = @ \o <<TimestepMarker, <<IntTok(t.timestep)>>,
                                       NumberOfAtomsMarker,
                                       <<IntTok(Len(t.positions))>>,
                                       BoxBoundsMarker>>]
        w2 == WriteBox(w1, t.box_bounds)
    IN  IF w2.pc = "raised" THEN w2
        ELSE [w2 EXCEPT !.out = @ \o <<AtomsMarker(FALSE)>>
                                   \o WriteAtoms(t.atom_ids, t.positions)]

RECURSIVE WriteTuples(_, _)
WriteTuples(w, data) ==
    IF data = <<>> \/ w.pc = "raised" THEN w
    ELSE WriteTuples(WriteSnapshot(w, Head(data)), Tail(data))

\* write_trajectory(data, output_file): the lines of the output file.
write_trajectory(data) ==
    WriteTuples([pc |-> "written", exc |-> "", out |-> <<>>, result |-> None],
                data)

\* The number of leading lines verify_output reads from each file.
VerifyLines == 10

\* verify_output(input_file, output_file)
verify_output(w, input) ==
    IF Len(input) < VerifyLines \/ Len(w.out) < VerifyLines
    THEN Raise(w, "StopIteration")
    ELSE [w EXCEPT !.pc = "verified", !.result = Some(input[1] = w.out[1])]

ConvInit == [pc |-> "reading", exc |-> "", out |-> <<>>, result |-> None]

(***************************************************************************)
(* main() of analyze_dislocations.py: analyze_time_evolution, then the     *)
(* report.  A density n * 1e-10 / (volume * 1e-30) is kept as the pair of  *)
(* its count n and its volume (in thousandths); the report is kept as one  *)
(* entry per f.write call: its kind and the count or density it depends    *)
(* on.                                                                     *)
(***************************************************************************)
\* "dislocation_atoms = csp > 2.0", in tenths.
CspThreshold == 20

\* sorted(data.keys())
RECURSIVE SortedKeys(_)
SortedKeys(keys) ==
    IF keys = {} THEN <<>>
    ELSE LET m == CHOOSE k \in keys : \A j \in keys : k <= j
         IN  <<m>> \o SortedKeys(keys \ {m})

\* "for bounds in box_bounds: box_volume *= (bounds[1] - bounds[0])"
RECURSIVE BoxVolume(_)
BoxVolume(rows) ==
    IF rows = <<>> THEN 1
    ELSE (Head(rows)[2] - Head(rows)[1]) * BoxVolume(Tail(rows))

\* data[timestep]
FrameOf(data, t) == data[CHOOSE i \in 1..Len(data) : data[i].timestep = t]

NDislocations(csp) == Cardinality({i \in 1..Len(csp) : csp[i] > CspThreshold})

\* len(np.unique(types))
NGrains(types) == Cardinality({types[i] : i \in 1..Len(types)})

AnaInit ==
    [pc |-> "start", exc |-> "", exit |-> None, ssd |-> None,
     evolution |-> None, plot |-> FALSE, report |-> None]

\* sys.exit(1) in "except Exception as e".
AnaFail(a, e) == [a EXCEPT !.pc = "exited", !.exc = e, !.exit = Some(1)]

\* analyze_time_evolution(data, stress_strain_data); ssd is None or the
\* set of timesteps of the stress-strain table.
analyze_time_evolution(a, data, ssd) ==
    LET timesteps == SortedKeys({data[i].timestep : i \in 1..Len(data)})
        n == Len(timesteps)
    IN  IF \E i \in 1..n : FrameOf(data, timesteps[i]).box_bounds = None
        THEN AnaFail(a, "TypeError")
        ELSE LET frame(i) == FrameOf(data, timesteps[i])
                 densities ==
                    [i \in 1..n |->
                        [n |-> NDislocations(frame(i).csp),
                         volume |-> BoxVolume(frame(i).box_bounds[1])]]
                 matched ==
                    IF ssd = None THEN <<>>
                    ELSE SelectSeq(timesteps, LAMBDA t : t \in ssd[1])
             IN  [a EXCEPT
                    !.pc = "analyzed",
                    !.plot = TRUE,
                    !.evolution =
                        Some([timesteps |-> timesteps,
                              dislocation_densities |-> densities,
                              n_grains |-> [i \in 1..n |->
                                              NGrains(frame(i).types)],
                              matched |-> matched])]

\* "with open('results/dislocation_evolution_report.md', 'w') as f: ..."
\* The file exists from the open on; the lines written before an
\* exception stay in it.
WriteReport(a) ==
    LET ev == a.evolution[1]
        n == Len(ev.timesteps)
        head == <<[line |-> "title"], [line |-> "heading"],
                  [line |-> "total", n |-> n]>>
        in_phase(lo, hi) ==
            Cardinality({i \in 1..n : ev.timesteps[i] > lo
                                       /\ ev.timesteps[i] <= hi})
    IN  IF n = 0
        THEN [AnaFail(a, "IndexError") EXCEPT !.report = Some(head)]
        ELSE [a EXCEPT
                !.pc = "exited",
                !.exit = Some(0),
                !.report = Some(
                    head \o
                    <<[line |-> "initial", density |-> ev.dislocation_densities[1]],
                      [line |-> "final", density |-> ev.dislocation_densities[n]],
                      [line |-> "maximum"],
                      [line |-> "grains"],
                      [line |-> "observations"],
                      [line |-> "trends"],
                      [line |-> "initial phase",
                       n |-> Cardinality({i \in 1..n : ev.timesteps[i] <= 1000})],
                      [line |-> "middle phase", n |-> in_phase(1000, 5000)],
                      [line |-> "final phase",
                       n |-> Cardinality({i \in 1..n : ev.timesteps[i] > 5000})],
                      [line |-> "grain structure"],
                      [line |-> "grains constant"],
                      [line |-> "no boundaries"],
                      [line |-> "correlation heading"],
                      [line |-> "correlation",
                       available |-> a.ssd # None,
                       matched |-> ev.matched # <<>>]>>
                    \o (IF ev.matched # <<>>
                        THEN <<[line |-> "correlation plot"]>>
                        ELSE <<>>))]

\* The stress-strain tables main() may find: none, or one with these
\* timesteps.
StressStrainTables == {None, Some({}), Some({0})}

(***************************************************************************)
(* extract_stress_strain_data.py.  A log is a sequence of lines of tokens; *)
(* a strain (L - L0) / L0 is kept as the pair of its numerator and its     *)
(* denominator.                                                            *)
(***************************************************************************)
\* {'x': 'Pxx', 'y': 'Pyy', 'z': 'Pzz'}[loading_direction]
StressKey(dir) == IF dir = "x" THEN "Pxx" ELSE IF dir = "y" THEN "Pyy" ELSE "Pzz"

\* required_keys
RequiredKeys(dir) == {"Step", StressKey(dir), "Lx", "Ly", "Lz"}

\* key in header
InHeader(header, key) ==
    \E i \in 1..Len(header) : header[i].k = "word" /\ header[i].w = Spell(key)

\* header.index(key), 0-based
IndexOf(header, key) ==
    (CHOOSE i \in 1..Len(header) :
        /\ header[i].k = "word" /\ header[i].w = Spell(key)
        /\ \A j \in 1..(i - 1) : ~(header[j].k = "word" /\ header[j].w = Spell(key))) - 1

ExtInit(dir) ==
    [pc |-> "loop", exc |-> "", pos |-> 0, dir |-> dir,
     header_line_found |-> FALSE, header |-> None, initial |-> None,
     data |-> <<>>, result |-> None, written |-> None, exit |-> None]

\* "except Exception as e: ... return None"
ExtAbort(s, e) == [s EXCEPT !.pc = "returned", !.exc = e, !.result = None]

\* re.match(r'^\s*Step', line) on the stripped line: its first word begins
\* with the characters S, t, e, p.
MatchesStep(line) ==
    Len(line) >= 1 /\ IsWord(line[1]) /\ HasPrefix(line[1].w, Spell("Step"))

\* The first branch (lines 24-38): a line that begins with Step while no
\* header has been found.
ExtHeader(s, line) ==
    IF \A key \in RequiredKeys(s.dir) : InHeader(line, key)
    THEN [s EXCEPT !.header = Some(line), !.header_line_found = TRUE]
    ELSE [s EXCEPT !.header = Some(line)]

\* The box length of the loading direction among <<Lx, Ly, Lz>>.
Along(dir, ls) == IF dir = "x" THEN ls[1] ELSE IF dir = "y" THEN ls[2] ELSE ls[3]

\* Mutant: the strain is measured from the first step-0 row only.
ExtRowFirstInitial(s, values) ==
    LET h == s.header[1]
        at(key) == values[IndexOf(h, key) + 1]
        ls == <<at("Lx").v, at("Ly").v, at("Lz").v>>
        step == IntOfFloat(at("Step").v)
        l0 == IF s.initial = None THEN ls ELSE s.initial[1]
    IN  IF ~IsIntLiteral(at("Step")) \/ ~IsFloat(at(StressKey(s.dir)))
           \/ ~IsFloat(at("Lx")) \/ ~IsFloat(at("Ly")) \/ ~IsFloat(at("Lz"))
        THEN s
        ELSE IF step = 0
        THEN [s EXCEPT !.initial = Some(l0),
                       !.data = Append(@, [step |-> 0,
                                           strain |-> [num |-> 0, den |-> 1],
                                           stress |-> -at(StressKey(s.dir)).v])]
        ELSE IF s.initial = None THEN ExtAbort(s, "TypeError")
        ELSE IF Along(s.dir, s.initial[1]) = 0
             THEN ExtAbort(s, "ZeroDivisionError")
        ELSE [s EXCEPT !.data =
                 Append(@, [step |-> step,
                            strain |-> [num |-> Along(s.dir, ls)
                                                - Along(s.dir, s.initial[1]),
                                        den |-> Along(s.dir, s.initial[1])],
                            stress |-> -at(StressKey(s.dir)).v])]

\* The second branch (lines 42-71): a line with the header's token count,
\* met after the header.
ExtRow(s, values) ==
    LET h == s.header[1]
        at(key) == values[IndexOf(h, key) + 1]
        ls == <<at("Lx").v, at("Ly").v, at("Lz").v>>
        step == IntOfFloat(at("Step").v)
    IN  IF ~IsIntLiteral(at("Step")) \/ ~IsFloat(at(StressKey(s.dir)))
           \/ ~IsFloat(at("Lx")) \/ ~IsFloat(at("Ly")) \/ ~IsFloat(at("Lz"))
        THEN s
        ELSE IF step = 0
        THEN [s EXCEPT !.initial = Some(ls),
                       !.data = Append(@, [step |-> 0,
                                           strain |-> [num |-> 0, den |-> 1],
                                           stress |-> -at(StressKey(s.dir)).v])]
        ELSE IF s.initial = None THEN ExtAbort(s, "TypeError")
        ELSE IF Along(s.dir, s.initial[1]) = 0
             THEN ExtAbort(s, "ZeroDivisionError")
        ELSE [s EXCEPT !.data =
                 Append(@, [step |-> step,
                            strain |-> [num |-> Along(s.dir, ls)
                                                - Along(s.dir, s.initial[1]),
                                        den |-> Along(s.dir, s.initial[1])],
                            stress |-> -at(StressKey(s.dir)).v])]

\* Mutant: the list gathered so far is returned without a header too.
ExtReturnAlways(s) == [s EXCEPT !.pc = "returned", !.result = Some(s.data)]

\* After the loop (lines 80-85).
ExtReturn(s) ==
    IF ~s.header_line_found
    THEN [s EXCEPT !.pc = "returned", !.result = None]
    ELSE [s EXCEPT !.pc = "returned", !.result = Some(s.data)]

IsHeaderBranch(s, line) == ~s.header_line_found /\ MatchesStep(line)

IsRowBranch(s, line) ==
    /\ ~IsHeaderBranch(s, line)
    /\ s.header_line_found
    /\ Len(line) = Len(s.header[1])

\* One iteration of "for line in f", or the code after the loop.
ExtStep(s, f) ==
    IF s.pos >= Len(f) THEN ExtReturn(s)
    ELSE LET line == f[s.pos + 1]
             s1 == [s EXCEPT !.pos = @ + 1]
         IN  IF IsHeaderBranch(s, line) THEN ExtHeader(s1, line)
             ELSE IF IsRowBranch(s, line) THEN ExtRow(s1, line)
             ELSE s1

RECURSIVE ExtRun(_, _)
ExtRun(s, f) == IF s.pc # "loop" THEN s ELSE ExtRun(ExtStep(s, f), f)

extract_stress_strain_data(f, dir) == ExtRun(ExtInit(dir), f)

\* f"{x:.6e}"
Sci6(x) == [fmt |-> "6e", x |-> x]

\* write_stress_strain_data(data, output_file, loading_direction)
write_stress_strain_data(data, dir) ==
    IF data = <<>> THEN None
    ELSE Some(<<[label |-> StressKey(dir)]>>
              \o [i \in 1..Len(data) |->
                    [step |-> data[i].step, strain |-> Sci6(data[i].strain),
                     stress |-> Sci6(data[i].stress)]])

\* The entry point (lines 107-118): the script ends normally on both
\* branches, with exit status 0.
ExtMainBlock(s) ==
    [s EXCEPT !.pc = "exited",
              !.exit = Some(0),
              !.written = IF s.result # None /\ s.result[1] # <<>>
                          THEN write_stress_strain_data(s.result[1], s.dir)
                          ELSE None]

(***************************************************************************)
(* The logs given to extract_stress_strain_data.                           *)
(***************************************************************************)
MaxRows == 3

HeaderCols == <<"Step", "Pxx", "Pyy", "Pzz", "Lx", "Ly", "Lz">>

ThermoHeader == Words(HeaderCols)

\* A header that lacks the Lz column, and one whose first column only
\* begins with Step.
HeaderNoLz == Words(<<"Step", "Pxx", "Pyy", "Pzz", "Lx", "Ly", "Temp">>)

HeaderSteps == Words(<<"Steps", "Pxx", "Pyy", "Pzz", "Lx", "Ly", "Lz">>)

\* A thermo row: the pressures follow from the step, the box lengths from l.
ThermoRow(step, l) ==
    <<IntTok(step), FloatTok(-(step + 11)), FloatTok(-(step + 12)),
      FloatTok(-(step + 13)), FloatTok(l), FloatTok(l + 10), FloatTok(l + 20)>>

ThermoRows == {ThermoRow(step, l) : step \in Timesteps, l \in {1000, 1200}}

\* Rows that do not parse, a line of another length, and a step-0 row of
\* a box of length 0.
FloatStepRow ==
    <<FloatTok(15), FloatTok(1), FloatTok(2), FloatTok(3), FloatTok(1000),
      FloatTok(1010), FloatTok(1020)>>

WordsRow ==
    <<Word("Loop"), Word("time"), Word("of"), IntTok(1), Word("on"),
      IntTok(1), Word("procs")>>

ZeroBoxRow ==
    <<IntTok(0), FloatTok(1), FloatTok(2), FloatTok(3), FloatTok(0),
      FloatTok(0), FloatTok(0)>>

LogLines == ThermoRows \cup {FloatStepRow, WordsRow, ShortLine, ZeroBoxRow}

LogBodies == UNION {[1..k -> LogLines] : k \in 0..MaxRows}

LogHeads ==
    {<<>>, <<ThermoHeader>>, <<ShortLine, ThermoHeader>>, <<HeaderNoLz>>,
     <<HeaderSteps>>, <<HeaderNoLz, ThermoHeader>>}

LogFiles == {h \o b : h \in LogHeads, b \in LogBodies}

\* The loading directions; the script's entry point uses 'z', the other
\* two are tried on the logs that begin with the full header.
Directions == {"x", "y", "z"}

(***************************************************************************)
(* split_voro.py.  A file is a sequence of bytes; chunk_size is the number *)
(* of bytes computed at line 6.                                            *)
(***************************************************************************)
MaxBytes == 5

MaxChunk == 3

Bytes == {0, 1}

SplitInputs == UNION {[1..n -> Bytes] : n \in 0..MaxBytes}

SplitInit(input, chunk_size) ==
    [pc |-> "start", input |-> input, chunk_size |-> chunk_size,
     num_chunks |-> 0, i |-> 0, pos |-> 0, parts |-> <<>>]

\* math.ceil(file_size / chunk_size)
CeilDiv(a, b) == (a + b - 1) \div b

\* Lines 9-10: the size of the file and the number of chunks.
SplitCount(s) ==
    [s EXCEPT !.pc = "loop",
              !.num_chunks = CeilDiv(Len(s.input), s.chunk_size)]

\* f.read(chunk_size): the bytes from the position on, at most chunk_size.
ReadAt(input, pos, n) ==
    SubSeq(input, pos + 1, IF pos + n > Len(input) THEN Len(input) ELSE pos + n)

\* Mutant: every chunk is read from the start of the file.
SplitChunkRewind(s) ==
    [s EXCEPT !.i = @ + 1,
              !.parts = Append(@, ReadAt(s.input, 0, s.chunk_size))]

\* One iteration of "for i in range(num_chunks)" (lines 19-25).
SplitChunk(s) ==
    LET chunk == ReadAt(s.input, s.pos, s.chunk_size)
    IN  [s EXCEPT !.i = @ + 1,
                  !.pos = @ + Len(chunk),
                  !.parts = Append(@, chunk)]

(***************************************************************************)
(* The state machine: one run of one program on one input; after          *)
(* read_dump_voro the rest of its main() follows (write, verify), after    *)
(* read_lammps_dump the rest of the main() of analyze_dislocations.py.     *)
(***************************************************************************)
Targets == {None, Some({0})}

Programs ==
    {"read_dump_voro", "read_lammps_dump", "extract_stress_strain_data",
     "split_voro_file"}

Init ==
    /\ prog \in Programs
    /\ file \in (IF prog = "read_dump_voro" THEN VoroFiles
                 ELSE IF prog = "read_lammps_dump" THEN LammpsFiles
                 ELSE IF prog = "extract_stress_strain_data" THEN LogFiles
                 ELSE {<<>>})
    /\ voro = VoroInit
    /\ conv = ConvInit
    /\ lmp \in {LmpInit(t) : t \in
                  IF prog = "read_lammps_dump" THEN Targets ELSE {None}}
    /\ ana = AnaInit
    /\ ext \in {ExtInit(d) : d \in
                  IF /\ prog = "extract_stress_strain_data"
                     /\ file # <<>>
                     /\ file[1] = ThermoHeader
                  THEN Directions ELSE {"z"}}
    /\ split \in (IF prog = "split_voro_file"
                  THEN {SplitInit(input, c) :
                            input \in SplitInputs, c \in 1..MaxChunk}
                  ELSE {SplitInit(<<>>, 1)})

\* read_dump_voro is inside its loop with a line left to read.
VoroScanning ==
    prog = "read_dump_voro" /\ voro.pc = "loop" /\ voro.pos < Len(file)

\* The line the loop's next iteration is given.
VoroLine == file[voro.pos + 1]

IsSkippedItem(line) ==
    IsItemLine(line) /\ ~IsTimestepLine(line) /\ ~IsBoxBoundsLine(line)
    /\ ~IsAtomsLine(line)

IsPlainLine(line) == ~IsItemLine(line)

VoroOnTimestep ==
    /\ VoroScanning
    /\ IsTimestepLine(VoroLine)
    /\ voro' = VoroStep(voro, file)
    /\ UNCHANGED <<prog, file, lmp, conv, ana, ext, split>>

VoroOnBoxBounds ==
    /\ VoroScanning
    /\ IsBoxBoundsLine(VoroLine)
    /\ voro' = VoroStep(voro, file)
    /\ UNCHANGED <<prog, file, lmp, conv, ana, ext, split>>

VoroOnOtherItem ==
    /\ VoroScanning
    /\ IsSkippedItem(VoroLine)
    /\ voro' = VoroStep(voro, file)
    /\ UNCHANGED <<prog, file, lmp, conv, ana, ext, split>>

VoroOnAtoms ==
    /\ VoroScanning
    /\ IsAtomsLine(VoroLine)
    /\ voro' = VoroStep(voro, file)
    /\ UNCHANGED <<prog, file, lmp, conv, ana, ext, split>>

VoroOnLine ==
    /\ VoroScanning
    /\ IsPlainLine(VoroLine)
    /\ voro' = VoroStep(voro, file)
    /\ UNCHANGED <<prog, file, lmp, conv, ana, ext, split>>

VoroAtEnd ==
    /\ prog = "read_dump_voro"
    /\ voro.pc = "loop"
    /\ voro.pos >= Len(file)
    /\ voro' = VoroStep(voro, file)
    /\ UNCHANGED <<prog, file, lmp, conv, ana, ext, split>>

\* read_lammps_dump is inside its loop with a line left to read.
LmpScanning ==
    prog = "read_lammps_dump" /\ lmp.pc = "loop" /\ lmp.pos < Len(file)

LmpLine == file[lmp.pos + 1]

HasNoMarker(line) ==
    ~HasTimestep(line) /\ ~HasNumberOfAtoms(line) /\ ~HasBoxBounds(line)
    /\ ~HasAtoms(line)

LmpOnTimestep ==
    /\ LmpScanning
    /\ HasTimestep(LmpLine)
    /\ lmp' = LmpStep(lmp, file)
    /\ UNCHANGED <<prog, file, voro, conv, ana, ext, split>>

\* The elif of line 45: reached when the TIMESTEP test has failed.
LmpOnNumberOfAtoms ==
    /\ LmpScanning
    /\ ~HasTimestep(LmpLine)
    /\ HasNumberOfAtoms(LmpLine)
    /\ lmp' = LmpStep(lmp, file)
    /\ UNCHANGED <<prog, file, voro, conv, ana, ext, split>>

\* The elif of line 47: reached when the two tests before it have failed.
LmpOnBoxBounds ==
    /\ LmpScanning
    /\ ~HasTimestep(LmpLine) /\ ~HasNumberOfAtoms(LmpLine)
    /\ HasBoxBounds(LmpLine)
    /\ lmp' = LmpStep(lmp, file)
    /\ UNCHANGED <<prog, file, voro, conv, ana, ext, split>>

\* The elif of line 52: reached when the three tests before it have failed.
LmpOnAtoms ==
    /\ LmpScanning
    /\ ~HasTimestep(LmpLine) /\ ~HasNumberOfAtoms(LmpLine)
    /\ ~HasBoxBounds(LmpLine)
    /\ HasAtoms(LmpLine)
    /\ lmp' = LmpStep(lmp, file)
    /\ UNCHANGED <<prog, file, voro, conv, ana, ext, split>>

LmpOnLine ==
    /\ LmpScanning
    /\ HasNoMarker(LmpLine)
    /\ lmp' = LmpStep(lmp, file)
    /\ UNCHANGED <<prog, file, voro, conv, ana, ext, split>>

LmpAtEnd ==
    /\ prog = "read_lammps_dump"
    /\ lmp.pc = "loop"
    /\ lmp.pos >= Len(file)
    /\ lmp' = LmpStep(lmp, file)
    /\ UNCHANGED <<prog, file, voro, conv, ana, ext, split>>

\* main(): "write_trajectory(data, output_file)"
MainWrite ==
    /\ prog = "read_dump_voro"
    /\ voro.pc = "returned"
    /\ conv.pc = "reading"
    /\ conv' = write_trajectory(voro.data)
    /\ UNCHANGED <<prog, file, voro, lmp, ana, ext, split>>

\* main(): "verify_output(input_file, output_file)"
MainVerify ==
    /\ prog = "read_dump_voro"
    /\ conv.pc = "written"
    /\ conv' = verify_output(conv, file)
    /\ UNCHANGED <<prog, file, voro, lmp, ana, ext, split>>

\* analyze_dislocations main(): the stress-strain table is looked for,
\* the dump is read, analyze_time_evolution runs (lines 236-251).
MainAnalyze ==
    /\ prog = "read_lammps_dump"
    /\ lmp.pc \in {"returned", "raised"}
    /\ lmp.target_timesteps = None
    /\ ana.pc = "start"
    /\ \E ssd \in StressStrainTables :
          ana' = IF lmp.pc = "raised"
                 THEN AnaFail([ana EXCEPT !.ssd = ssd], lmp.exc)
                 ELSE analyze_time_evolution([ana EXCEPT !.ssd = ssd],
                                             lmp.data, ssd)
    /\ UNCHANGED <<prog, file, voro, lmp, conv, ext, split>>

\* analyze_dislocations main(): the report (lines 257-328).
MainReport ==
    /\ prog = "read_lammps_dump"
    /\ ana.pc = "analyzed"
    /\ ana' = WriteReport(ana)
    /\ UNCHANGED <<prog, file, voro, lmp, conv, ext, split>>

\* extract_stress_strain_data is inside its loop with a line left.
ExtScanning ==
    /\ prog = "extract_stress_strain_data"
    /\ ext.pc = "loop"
    /\ ext.pos < Len(file)

ExtLine == file[ext.pos + 1]

ExtOnHeader ==
    /\ ExtScanning
    /\ IsHeaderBranch(ext, ExtLine)
    /\ ext' = ExtStep(ext, file)
    /\ UNCHANGED <<prog, file, voro, lmp, conv, ana, split>>

ExtOnRow ==
    /\ ExtScanning
    /\ IsRowBranch(ext, ExtLine)
    /\ ext' = ExtStep(ext, file)
    /\ UNCHANGED <<prog, file, voro, lmp, conv, ana, split>>

ExtOnOther ==
    /\ ExtScanning
    /\ ~IsHeaderBranch(ext, ExtLine)
    /\ ~IsRowBranch(ext, ExtLine)
    /\ ext' = ExtStep(ext, file)
    /\ UNCHANGED <<prog, file, voro, lmp, conv, ana, split>>

ExtAtEnd ==
    /\ prog = "extract_stress_strain_data"
    /\ ext.pc = "loop"
    /\ ext.pos >= Len(file)
    /\ ext' = ExtStep(ext, file)
    /\ UNCHANGED <<prog, file, voro, lmp, conv, ana, split>>

\* The script's entry point after the call has returned.
ExtMain ==
    /\ prog = "extract_stress_strain_data"
    /\ ext.pc = "returned"
    /\ ext' = ExtMainBlock(ext)
    /\ UNCHANGED <<prog, file, voro, lmp, conv, ana, split>>

SplitStart ==
    /\ prog = "split_voro_file"
    /\ split.pc = "start"
    /\ split' = SplitCount(split)
    /\ UNCHANGED <<prog, file, voro, lmp, conv, ana, ext>>

SplitOnChunk ==
    /\ prog = "split_voro_file"
    /\ split.pc = "loop"
    /\ split.i < split.num_chunks
    /\ split' = SplitChunk(split)
    /\ UNCHANGED <<prog, file, voro, lmp, conv, ana, ext>>

SplitEnd ==
    /\ prog = "split_voro_file"
    /\ split.pc = "loop"
    /\ split.i >= split.num_chunks
    /\ split' = [split EXCEPT !.pc = "done"]
    /\ UNCHANGED <<prog, file, voro, lmp, conv, ana, ext>>

Next ==
    \/ VoroOnTimestep
    \/ VoroOnBoxBounds
    \/ VoroOnOtherItem
    \/ VoroOnAtoms
    \/ VoroOnLine
    \/ VoroAtEnd
    \/ LmpOnTimestep
    \/ LmpOnNumberOfAtoms
    \/ LmpOnBoxBounds
    \/ LmpOnAtoms
    \/ LmpOnLine
    \/ LmpAtEnd
    \/ MainWrite
    \/ MainVerify
    \/ MainAnalyze
    \/ MainReport
    \/ ExtOnHeader
    \/ ExtOnRow
    \/ ExtOnOther
    \/ ExtAtEnd
    \/ ExtMain
    \/ SplitStart
    \/ SplitOnChunk
    \/ SplitEnd

Spec == Init /\ [][Next]_vars

(***************************************************************************)
(* analyze_deformation: displacement magnitudes between two frames.        *)
(***************************************************************************)
\* The Euclidean norm of a vector of tenths is the square root of the
\* sum of its squares: it is kept exactly, as that sum (in hundredths).
Norm(v) == [sq |-> v[1] * v[1] + v[2] * v[2] + v[3] * v[3]]

\* "displacements = current_positions - initial_positions"
Displacements(current, initial) ==
    [i \in 1..Len(current) |->
        <<current[i][1] - initial[i][1], current[i][2] - initial[i][2],
          current[i][3] - initial[i][3]>>]

\* "np.linalg.norm(displacements, axis=1)": one norm per particle.
DisplacementMagnitudes(current, initial) ==
    LET d == Displacements(current, initial)
    IN  [i \in 1..Len(d) |-> Norm(d[i])]

RECURSIVE SumSeq(_)
SumSeq(q) == IF q = <<>> THEN 0 ELSE Head(q) + SumSeq(Tail(q))

\* A norm is a whole number of tenths iff its square is a perfect square.
IsSquare(n) == \E r \in 0..n : r * r = n

Root(n) == CHOOSE r \in 0..n : r * r = n

\* "np.mean(displacement_magnitudes)" equals t tenths.  A sum of square
\* roots of naturals is rational only when every root is a whole number,
\* so the test is exact.
AverageIs(mags, t) ==
    /\ mags # <<>>
    /\ \A i \in 1..Len(mags) : IsSquare(mags[i].sq)
    /\ SumSeq([i \in 1..Len(mags) |-> Root(mags[i].sq)]) = t * Len(mags)

(***************************************************************************)
(* Claims.                                                                 *)
(***************************************************************************)
VoroDone == prog = "read_dump_voro" /\ voro.pc # "loop"

LmpDone == prog = "read_lammps_dump" /\ lmp.pc # "loop"

TimestepsOf(data) == [i \in 1..Len(data) |-> data[i].timestep]

\* C1: on the two-snapshot scenario input read_dump_voro returns exactly
\* two snapshots, in this order, with timesteps 0 and 100.
C1_ScenarioTimesteps ==
    (VoroDone /\ file = Scenario) =>
        (voro.pc = "returned" /\ TimestepsOf(voro.data) = <<0, 100>>)

C1_Witness ==
    /\ VoroDone /\ file = Scenario /\ voro.pc = "returned"
    /\ Len(voro.data) = 2
    /\ voro.data[1].positions # <<>> /\ voro.data[2].positions # <<>>

\* C2: on the scenario input both snapshots hold both particles, with
\* x, y, z taken from the x, y, z columns, so that the displacement
\* magnitudes between timestep 0 and timestep 100 average to exactly 0.2
\* (their sum, in tenths, is 2 per particle).
C2_ScenarioDisplacement ==
    (VoroDone /\ file = Scenario) =>
        /\ voro.pc = "returned"
        /\ Len(voro.data) = 2
        /\ LET p0 == voro.data[1].positions
               p1 == voro.data[2].positions
           IN  /\ p0 = <<<<10, 10, 10>>, <<20, 20, 20>>>>
               /\ p1 = <<<<11, 10, 10>>, <<23, 20, 20>>>>
               /\ AverageIs(DisplacementMagnitudes(p1, p0), 2)

\* The column names carried on an 'ITEM: ATOMS' marker line.
MarkerCols(line) == SubSeq(line, 3, Len(line))

\* C3: on every 'ITEM: ATOMS' marker the indices of id, x, y and z are
\* those of the names in the column list of the marker line itself, and the
\* step consumes the marker line only: no data line is used up to resolve
\* them.
C3_IndicesFromMarkerLine ==
    [][VoroOnAtoms =>
        LET cols == MarkerCols(file[voro.pos + 1])
        IN  /\ voro'.pc = "loop"
            /\ voro'.pos = voro.pos + 1
            /\ voro'.id_idx = Some(HeaderIndex(cols, "id", 0))
            /\ voro'.x_idx = Some(HeaderIndex(cols, "x", 1))
            /\ voro'.y_idx = Some(HeaderIndex(cols, "y", 2))
            /\ voro'.z_idx = Some(HeaderIndex(cols, "z", 3))]_vars

\* C4: for a well-formed input (each section declares n atoms and holds n
\* valid data lines) read_dump_voro returns one snapshot per section, each
\* holding exactly n particles, one per data line, in file order.
C4_WellFormedCounts ==
    \A tss \in TimestepSeqs, n \in 1..MaxAtoms, box \in BOOLEAN :
        (VoroDone /\ file = WellFormed(tss, n, box, FALSE)) =>
            /\ voro.pc = "returned"
            /\ TimestepsOf(voro.data) = tss
            /\ \A k \in 1..Len(voro.data) :
                  /\ Len(voro.data[k].positions) = n
                  /\ voro.data[k].atom_ids = [i \in 1..n |-> i]

\* C5: the returned list keeps file order.  Every iteration leaves the
\* list as it is or adds, at its end, the snapshot being accumulated; a
\* snapshot with particles that meets the next 'ITEM: TIMESTEP' marker or
\* the end of the file is added, also when its timestep is already in the
\* list; nothing is sorted or removed.
C5_FileOrder ==
    [][(prog = "read_dump_voro" /\ voro.pc = "loop") =>
        LET n == Len(voro.data)
            added ==
                /\ Len(voro'.data) = n + 1
                /\ SubSeq(voro'.data, 1, n) = voro.data
                /\ voro'.data[n + 1].timestep = voro.current_timestep[1]
                /\ voro'.data[n + 1].positions = voro.current_data
                /\ voro'.data[n + 1].atom_ids = voro.atom_ids
            ends == voro.pos >= Len(file) \/ IsTimestepLine(file[voro.pos + 1])
        IN  IF ends /\ voro.current_timestep # None /\ voro.current_data # <<>>
            THEN added
            ELSE voro'.data = voro.data]_vars

C5_Witness ==
    /\ VoroDone /\ voro.pc = "returned"
    /\ Len(voro.data) = 2
    /\ voro.data[1].timestep = voro.data[2].timestep
    /\ voro.data[1].positions # voro.data[2].positions

\* C6: with target_timesteps=None read_lammps_dump does not deduplicate:
\* for a well-formed input, whose sections all hold particles, the result
\* has one entry per section, in file order, also when two sections carry
\* the same timestep.
C6_NoDeduplication ==
    \A tss \in TimestepSeqs, n \in 1..MaxAtoms, box \in BOOLEAN :
        (/\ LmpDone
         /\ lmp.target_timesteps = None
         /\ file = WellFormed(tss, n, box, TRUE)) =>
            (lmp.pc = "returned" /\ TimestepsOf(lmp.data) = tss)

\* Line i of f lies in an ATOMS section: it is an 'ITEM: ATOMS' marker or
\* follows one with no marker line in between, so that a line inserted
\* after line i is inside that section.
InAtomsSection(f, i) ==
    \E m \in 1..i :
        /\ IsAtomsLine(f[m])
        /\ \A j \in (m + 1)..i : ~IsItemLine(f[j])

\* C7: inserting one invalid line at any position inside an ATOMS section
\* of a well-formed input, directly after the marker included, leaves the
\* returned snapshots as they are.
C7_InvalidLineIgnored ==
    (VoroDone /\ file \in Bases(FALSE)) =>
        \A i \in 1..Len(file), l \in InvalidLines :
            InAtomsSection(file, i) =>
                LET r == read_dump_voro(InsertAt(file, i, l))
                IN  r.pc = "returned" /\ r.data = voro.data

\* C8: a non-marker line met after a timestep value has been read never
\* makes read_dump_voro raise: it is recorded or skipped and the scan goes
\* on, whether or not an 'ITEM: ATOMS' marker has been seen.
C8_NoRaiseOnLine ==
    [][(VoroOnLine /\ voro.current_timestep # None) => voro'.pc = "loop"]_vars

\* Fewer than 3 lines follow the marker at line m before the next marker
\* line or the end of the file.
Truncated(f, m) == \E j \in 1..3 : m + j > Len(f) \/ IsItemLine(f[m + j])

BoxesOf(data) == {data[i].box_bounds : i \in 1..Len(data)}

\* C9: in both parsers an 'ITEM: BOX BOUNDS' marker followed by fewer than
\* 3 lines before the next marker line or the end of the file makes the
\* call raise, and no returned snapshot carries a box of fewer than 3 axes.
C9_TruncatedBoxRaises ==
    /\ [][/\ (VoroOnBoxBounds /\ Truncated(file, voro.pos + 1))
               => voro'.pc = "raised"
          /\ (LmpOnBoxBounds /\ Truncated(file, lmp.pos + 1))
               => lmp'.pc = "raised"]_vars
    /\ [](\A b \in BoxesOf(voro.data) \cup BoxesOf(lmp.data) :
             b # None => Len(b[1]) = 3)

C9_Witness ==
    /\ LmpDone /\ lmp.pc = "raised" /\ lmp.exc = "ValueError"
    /\ lmp.pos >= 1 /\ IsItemLine(file[lmp.pos])
    /\ \E m \in 1..Len(file) :
          /\ HasBoxBounds(file[m])
          /\ Truncated(file, m)
          /\ lmp.pos \in (m + 1)..(m + 3)
          /\ lmp.box_bounds = Some([j \in 1..(lmp.pos - m - 1) |->
                                      FloatsOf(file[m + j])])

\* C10: every box_bounds of a returned snapshot has exactly 3 entries of at
\* least 2 values each; an input with a blank or one-token line among the
\* 3 lines after 'ITEM: BOX BOUNDS' is never returned from.
C10_BoxRowsComplete ==
    (VoroDone /\ voro.pc = "returned") =>
        \A b \in BoxesOf(voro.data) :
            b # None =>
                (Len(b[1]) = 3 /\ \A r \in 1..Len(b[1]) : Len(b[1][r]) >= 2)

\* The names read_dump_voro looks up in the ATOMS header.
RequiredNames == {"id", "x", "y", "z"}

LacksRequired(cols) ==
    \E name \in RequiredNames :
        ~\E i \in 1..Len(cols) : cols[i].k = "word" /\ cols[i].w = Spell(name)

\* C11: when the column list of an ATOMS header lacks one of id, x, y, z
\* read_dump_voro ends in an error; it does not go on with substituted
\* column positions.
C11_MissingColumnRaises ==
    [][(VoroOnAtoms /\ LacksRequired(MarkerCols(VoroLine)))
          => voro'.pc = "raised"]_vars

\* The snapshots of data that carry timestep t.
WithTimestep(data, t) == {i \in 1..Len(data) : data[i].timestep = t}

\* C12: in both parsers a declared NUMBER OF ATOMS larger than the number
\* of atom lines present before the next marker or the end of the file is
\* no error: the call returns and the snapshot holds the atom lines present.
C12_DeclaredCountSoft ==
    \A d \in 0..MaxAtoms, m \in 1..MaxAtoms, more \in BOOLEAN :
        d > m =>
            /\ (VoroDone /\ file = MismatchFile(d, m, FALSE, more, FALSE)) =>
                  /\ voro.pc = "returned"
                  /\ \E i \in WithTimestep(voro.data, 0) :
                        Len(voro.data[i].positions) = m
            /\ (LmpDone /\ file = MismatchFile(d, m, FALSE, more, TRUE)) =>
                  /\ lmp.pc = "returned"
                  /\ \E i \in WithTimestep(lmp.data, 0) :
                        Len(lmp.data[i].positions) = m

\* C13: a snapshot returned by read_lammps_dump whose section declared N
\* atoms holds at most N particles, for any number of data lines and of
\* 'ITEM: ATOMS' markers in the section.
C13_CountIsUpperBound ==
    \A d \in 0..MaxAtoms, m \in 0..MaxAtoms, rep \in BOOLEAN, more \in BOOLEAN :
        (LmpDone /\ file = MismatchFile(d, m, rep, more, TRUE)) =>
            /\ lmp.pc = "returned"
            /\ \A i \in WithTimestep(lmp.data, 0) :
                  Len(lmp.data[i].positions) <= d

\* C14: read_dump_voro stops accumulating once the declared NUMBER OF
\* ATOMS is reached: valid data lines beyond it are not added.
C14_StopsAtDeclaredCount ==
    \A d \in 0..MaxAtoms, m \in 1..MaxAtoms, more \in BOOLEAN :
        (d < m /\ VoroDone /\ file = MismatchFile(d, m, FALSE, more, FALSE)) =>
            /\ voro.pc = "returned"
            /\ \A i \in WithTimestep(voro.data, 0) :
                  Len(voro.data[i].positions) <= d

\* C15: every snapshot in the result of either parser holds at least one
\* particle: a section with no particle at the next 'ITEM: TIMESTEP' marker
\* or at the end of the file is not in the result.
C15_NoEmptySnapshot ==
    /\ \A i \in 1..Len(voro.data) :
          voro.data[i].positions # <<>> /\ voro.data[i].atom_ids # <<>>
    /\ \A i \in 1..Len(lmp.data) : lmp.data[i].positions # <<>>

C15_Witness ==
    /\ VoroDone /\ voro.pc = "returned"
    /\ Len(voro.data) = 1
    /\ voro.current_timestep # None
    /\ voro.current_timestep[1] # voro.data[1].timestep
    /\ voro.current_data = <<>>

\* Line p of f follows an 'ITEM: ATOMS' marker with no 'ITEM: TIMESTEP'
\* marker in between: it lies in the ATOMS section of its own snapshot.
InOwnAtomsSection(f, p) ==
    \E m \in 1..(p - 1) :
        /\ IsAtomsLine(f[m])
        /\ \A j \in (m + 1)..(p - 1) : ~IsTimestepLine(f[j])

\* C16: the particles of a snapshot are parsed from lines after an
\* 'ITEM: ATOMS' marker of that snapshot and before the next
\* 'ITEM: TIMESTEP' marker: no line outside an ATOMS section is recorded.
C16_ParticlesFromAtomsSection ==
    [][(/\ prog = "read_dump_voro"
        /\ voro.pc = "loop"
        /\ voro'.current_data # voro.current_data
        /\ voro'.current_data # <<>>)
          => InOwnAtomsSection(file, voro.pos + 1)]_vars

\* C17: the box_bounds of a returned snapshot were read from a BOX BOUNDS
\* section after that snapshot's own 'ITEM: TIMESTEP' marker; a snapshot
\* never carries bounds read in the section of another snapshot.
C17_OwnBoxBounds ==
    [][(prog = "read_dump_voro" /\ Len(voro'.data) > Len(voro.data)) =>
        LET e == voro'.data[Len(voro'.data)]
        IN  e.box_bounds # None =>
                \E b \in 1..voro.pos :
                    /\ IsBoxBoundsLine(file[b])
                    /\ \A j \in (b + 1)..voro.pos : ~IsTimestepLine(file[j])]_vars

\* C18: for every well-formed input, main() reads, writes and verifies
\* without raising; the output's first line equals the input's first line
\* and verify_output returns True.
C18_RoundTripShape ==
    (prog = "read_dump_voro" /\ file \in Bases(FALSE)) =>
        /\ voro.pc # "raised"
        /\ conv.pc # "raised"
        /\ conv.pc \in {"written", "verified"} =>
              (conv.out # <<>> /\ conv.out[1] = file[1])
        /\ conv.pc = "verified" => conv.result = Some(TRUE)

\* Timesteps, particle ids and positions of the snapshots of data.
Particles(data) ==
    [i \in 1..Len(data) |->
        <<data[i].timestep, data[i].atom_ids, data[i].positions>>]

\* C19: for a well-formed input D, read_dump_voro applied to the file
\* written from read_dump_voro(D) returns the same timesteps, particle ids
\* and positions as read_dump_voro(D).
C19_RoundTripIdentity ==
    (/\ prog = "read_dump_voro"
     /\ file \in Bases(FALSE)
     /\ conv.pc = "written") =>
        LET again == read_dump_voro(conv.out)
        IN  again.pc = "returned" /\ Particles(again.data) = Particles(voro.data)

\* The line of the output at which the block of the k-th tuple starts: a
\* block is 9 header lines followed by one line per particle.
RECURSIVE BlockStart(_, _)
BlockStart(data, k) ==
    IF k = 1 THEN 1
    ELSE BlockStart(data, k - 1) + 9 + Len(data[k - 1].positions)

\* C20: write_trajectory emits one block per tuple, in input order, and in
\* each block one atom line per particle, in the order of the snapshot's
\* particles, carrying the particle's id, the type 1 and its coordinates.
C20_WriterOrder ==
    (prog = "read_dump_voro" /\ conv.pc \in {"written", "verified"}) =>
        LET data == voro.data
            out == conv.out
        IN  /\ Len(out) = BlockStart(data, Len(data) + 1) - 1
            /\ \A k \in 1..Len(data) :
                  LET b == BlockStart(data, k)
                  IN  /\ IsTimestepLine(out[b])
                      /\ FloatsOf(out[b + 1]) = <<10 * data[k].timestep>>
                      /\ out[b + 8] = AtomsMarker(FALSE)
                      /\ \A i \in 1..Len(data[k].positions) :
                            FloatsOf(out[b + 8 + i]) =
                                <<10 * data[k].atom_ids[i], 10>>
                                \o data[k].positions[i]

C20_Witness ==
    /\ prog = "read_dump_voro" /\ conv.pc = "written"
    /\ Len(voro.data) = 2
    /\ Len(voro.data[1].positions) = 2
    /\ Len(voro.data[2].positions) = 2

\* The converter has written its output file.
Written == prog = "read_dump_voro" /\ conv.pc \in {"written", "verified"}

\* C21: for a tuple whose box_bounds is absent (None or empty)
\* write_trajectory does not fail and writes three bound lines 0..100; for
\* a tuple whose box_bounds is present it writes the tuple's own bounds.
C21_DefaultBox ==
    /\ \A box \in {None, Some(<<>>)} :
          LET w == write_trajectory(
                      <<[timestep |-> 0, positions |-> <<>>,
                         box_bounds |-> box, atom_ids |-> <<>>]>>)
          IN  /\ w.pc = "written"
              /\ Len(w.out) = 9
              /\ \A i \in 6..8 : FloatsOf(w.out[i]) = <<0, 1000>>
    /\ (prog = "read_dump_voro" /\ conv.exc = "IndexError") =>
          \E k \in 1..Len(voro.data) :
              /\ voro.data[k].box_bounds # None
              /\ \E r \in 1..3 : Len(voro.data[k].box_bounds[1][r]) < 2
    /\ Written =>
          \A k \in 1..Len(voro.data) :
              LET b == BlockStart(voro.data, k)
                  box == voro.data[k].box_bounds
              IN  \A r \in 1..3 :
                      FloatsOf(conv.out[b + 4 + r]) =
                          IF box = None THEN <<0, 1000>>
                          ELSE SubSeq(box[1][r], 1, 2)

C21_Witness ==
    /\ Written
    /\ Len(voro.data) = 2
    /\ voro.data[1].box_bounds = None
    /\ voro.data[2].box_bounds = None

\* C22: every floating-point field write_trajectory emits, in bound lines
\* and in atom lines, with present or absent box bounds, has exactly 6
\* digits after the decimal point.
C22_SixDigits ==
    Written =>
        \A i \in 1..Len(conv.out) : \A j \in 1..Len(conv.out[i]) :
            conv.out[i][j].k = "float" => conv.out[i][j].d = 6

\* C28: with target_timesteps given, read_lammps_dump has an entry for t
\* iff t is a target and some section with timestep t accumulated a
\* particle; the retained entries are those of the unfiltered call.
C28_TargetFilter ==
    (LmpDone /\ lmp.target_timesteps # None) =>
        LET full == read_lammps_dump(file, None)
        IN  /\ lmp.pc = full.pc
            /\ lmp.exc = full.exc
            /\ lmp.pc = "returned" =>
                  lmp.data = SelectSeq(full.data,
                                LAMBDA e : e.timestep \in lmp.target_timesteps[1])
            /\ \A tss \in TimestepSeqs, n \in 1..MaxAtoms, box \in BOOLEAN :
                  file = WellFormed(tss, n, box, TRUE) =>
                      {lmp.data[i].timestep : i \in 1..Len(lmp.data)} =
                          {tss[i] : i \in 1..Len(tss)}
                              \cap lmp.target_timesteps[1]

C28_Witness ==
    /\ LmpDone /\ lmp.pc = "returned" /\ lmp.target_timesteps # None
    /\ Len(lmp.data) = 1
    /\ Len(read_lammps_dump(file, None).data) = 2

\* A line of the written file that carries an atom: 5 numeric fields.
IsAtomRow(line) == Len(line) = 5 /\ AllFloat(line)

\* C29: in every snapshot returned by read_dump_voro the id list and the
\* position list have the same length, so in the written file the value
\* after 'ITEM: NUMBER OF ATOMS' equals the number of atom lines of that
\* snapshot.
C29_CountMatchesLines ==
    /\ \A k \in 1..Len(voro.data) :
          Len(voro.data[k].atom_ids) = Len(voro.data[k].positions)
    /\ Written =>
          \A i \in 1..Len(conv.out) :
              conv.out[i] = NumberOfAtomsMarker =>
                  conv.out[i + 1][1].v =
                      10 * Cardinality(
                             {j \in (i + 1)..Len(conv.out) :
                                 /\ IsAtomRow(conv.out[j])
                                 /\ \A m \in (i + 1)..j :
                                       ~IsTimestepLine(conv.out[m])})

C29_Witness ==
    /\ Written
    /\ \E k \in 1..Len(voro.data) : Len(voro.data[k].positions) = 3

\* C23: when read_lammps_dump returns an empty result, the main() of
\* analyze_dislocations stops with a non-zero exit and leaves no partial
\* results/dislocation_evolution_report.md behind.
C23_NoPartialReport ==
    (/\ prog = "read_lammps_dump"
     /\ ana.pc = "exited"
     /\ lmp.pc = "returned"
     /\ lmp.data = <<>>) =>
        (ana.exit # Some(0) /\ ana.report = None)

\* No line of log f that begins with Step holds all the required columns.
NoHeader(f, dir) ==
    ~\E i \in 1..Len(f) :
        /\ MatchesStep(f[i])
        /\ \A key \in RequiredKeys(dir) : InHeader(f[i], key)

ExtDone == prog = "extract_stress_strain_data" /\ ext.pc \in {"returned", "exited"}

\* C24: if no line that begins with Step holds Step, the stress column of
\* the loading direction, Lx, Ly and Lz, extract_stress_strain_data
\* returns None, never a partial list, and the entry point writes no file.
C24_NoHeaderNoOutput ==
    (prog = "extract_stress_strain_data" /\ NoHeader(file, ext.dir)) =>
        /\ ext.data = <<>>
        /\ ext.result = None
        /\ ext.written = None

C24_Witness ==
    /\ ExtDone /\ ext.pc = "exited"
    /\ NoHeader(file, ext.dir)
    /\ Len(file) = 3
    /\ file[1] = HeaderNoLz
    /\ file[2] \in ThermoRows

\* C25: the script exits with status 0 when extraction and writing
\* complete and with a non-zero status when the log has no header.
C25_ExitStatus ==
    (prog = "extract_stress_strain_data" /\ ext.pc = "exited") =>
        /\ ext.written # None => ext.exit = Some(0)
        /\ NoHeader(file, ext.dir) => ext.exit # Some(0)

\* The column of key in header h, 1-based.
Col(h, key) ==
    CHOOSE i \in 1..Len(h) :
        /\ h[i].k = "word" /\ h[i].w = Spell(key)
        /\ \A j \in 1..(i - 1) : ~(h[j].k = "word" /\ h[j].w = Spell(key))

\* Row l has the token count of header h and its Step, stress and box
\* length fields parse as numbers.
RowParses(h, l, dir) ==
    /\ Len(l) = Len(h)
    /\ IsIntLiteral(l[Col(h, "Step")])
    /\ \A key \in {StressKey(dir), "Lx", "Ly", "Lz"} : IsFloat(l[Col(h, key)])

\* C26: once the header is found, every later row that has the header's
\* token count and whose fields parse yields exactly one record, whatever
\* rows precede it, also when no step-0 row has been seen yet.
C26_EveryRowRecorded ==
    [][(/\ ExtScanning
        /\ ext.header_line_found
        /\ RowParses(ext.header[1], ExtLine, ext.dir))
          => (/\ ext'.pc = "loop"
              /\ Len(ext'.data) = Len(ext.data) + 1)]_vars

\* The lines of f after the header at line h that yield a record.
RecordRows(f, h, dir) == {j \in (h + 1)..Len(f) : RowParses(f[h], f[j], dir)}

\* The k-th smallest element of the set of numbers S.
RECURSIVE Nth(_, _)
Nth(S, k) ==
    LET m == CHOOSE x \in S : \A y \in S : x <= y
    IN  IF k = 1 THEN m ELSE Nth(S \ {m}, k - 1)

\* C27: each returned record (step, strain, stress) for direction d has
\* strain 0 when step is 0 and otherwise (L_d - L0_d) / L0_d with L0_d the
\* box length of the most recent step-0 row before it, and stress the
\* negated P_dd of its row.
C27_StrainAndStress ==
    (ExtDone /\ ext.result # None) =>
        LET dir == ext.dir
            h == CHOOSE i \in 1..Len(file) :
                    /\ MatchesStep(file[i])
                    /\ \A key \in RequiredKeys(dir) : InHeader(file[i], key)
                    /\ \A j \in 1..(i - 1) :
                          ~(/\ MatchesStep(file[j])
                            /\ \A key \in RequiredKeys(dir) :
                                  InHeader(file[j], key))
            rows == RecordRows(file, h, dir)
            lkey == IF dir = "x" THEN "Lx" ELSE IF dir = "y" THEN "Ly" ELSE "Lz"
            len(j) == file[j][Col(file[h], lkey)].v
            step(j) == file[j][Col(file[h], "Step")].v \div 10
            recs == ext.result[1]
        IN  /\ Len(recs) = Cardinality(rows)
            /\ \A k \in 1..Len(recs) :
                  LET j == Nth(rows, k)
                      zeros == {z \in rows : z < j /\ step(z) = 0}
                  IN  /\ recs[k].step = step(j)
                      /\ recs[k].stress =
                            -file[j][Col(file[h], StressKey(dir))].v
                      /\ IF step(j) = 0 THEN recs[k].strain.num = 0
                         ELSE /\ zeros # {}
                              /\ LET z == CHOOSE x \in zeros :
                                             \A y \in zeros : y <= x
                                 IN  recs[k].strain.num * len(z) =
                                        (len(j) - len(z)) * recs[k].strain.den
                              /\ recs[k].strain.den # 0

C27_Witness ==
    /\ ExtDone /\ ext.result # None
    /\ Len(ext.result[1]) = 3
    /\ ext.result[1][1].step = 0
    /\ ext.result[1][2].step = 0
    /\ ext.result[1][3].step = 100
    /\ ext.result[1][3].strain.num # 0
    /\ file[Len(file) - 2] # file[Len(file) - 1]

RECURSIVE ConcatParts(_)
ConcatParts(parts) ==
    IF parts = <<>> THEN <<>> ELSE Head(parts) \o ConcatParts(Tail(parts))

\* C30: split_voro_file loses and duplicates no byte: for S bytes and chunk
\* size C it creates ceil(S / C) parts (none when S = 0), every part but
\* the last holds C bytes, the last between 1 and C, and the parts
\* concatenated in index order are the input.
C30_SplitLossless ==
    (prog = "split_voro_file" /\ split.pc = "done") =>
        LET S == Len(split.input)
            C == split.chunk_size
            n == Len(split.parts)
        IN  /\ (n - 1) * C < S \/ (S = 0 /\ n = 0)
            /\ S <= n * C
            /\ \A i \in 1..(n - 1) : Len(split.parts[i]) = C
            /\ n > 0 => (Len(split.parts[n]) >= 1 /\ Len(split.parts[n]) <= C)
            /\ ConcatParts(split.parts) = split.input

C30_Witness ==
    /\ prog = "split_voro_file" /\ split.pc = "done"
    /\ Len(split.parts) = 3
    /\ Len(split.parts[3]) < split.chunk_size
    /\ split.parts[1] # split.parts[2]

====
